---- MODULE Spec2Model ----
(***************************************************************************)
(* Driver lifecycle of the selenium framework: DriverManager (start, stop, *)
(* the driver accessor, the context-manager protocol), the BrowserFactory  *)
(* it calls, and the initialize_driver fixture of conftest.py.             *)
(*                                                                         *)
(* A browser session is a record; the selenium calls the code makes on it  *)
(* (implicitly_wait, set_page_load_timeout, get, maximize_window, quit)    *)
(* update the record, and each of them can fail.  Strings the code         *)
(* normalises are sequences of one-character strings.                      *)
(***************************************************************************)
EXTENDS Integers, Sequences, FiniteSets, TLC

\* ------------------------------------------------------------------ bounds

\* Sessions the factory may launch in one run (manager and fixture together).
MaxSessions == 2

\* ------------------------------------------------------------ str helpers

UpperAlpha == <<"A","B","C","D","E","F","G","H","I","J","K","L","M",
                "N","O","P","Q","R","S","T","U","V","W","X","Y","Z">>
LowerAlpha == <<"a","b","c","d","e","f","g","h","i","j","k","l","m",
                "n","o","p","q","r","s","t","u","v","w","x","y","z">>
Whitespace == {" ", "\t", "\n"}

LowerChar(c) ==
    IF \E i \in DOMAIN UpperAlpha : UpperAlpha[i] = c
    THEN LowerAlpha[CHOOSE i \in DOMAIN UpperAlpha : UpperAlpha[i] = c]
    ELSE c

\* str.lower()
Lower(s) == [i \in DOMAIN s |-> LowerChar(s[i])]

RECURSIVE LStrip(_)
LStrip(s) ==
    IF s # <<>> /\ Head(s) \in Whitespace THEN LStrip(Tail(s)) ELSE s

RECURSIVE RStrip(_)
RStrip(s) ==
    IF s # <<>> /\ s[Len(s)] \in Whitespace
    THEN RStrip(SubSeq(s, 1, Len(s) - 1))
    ELSE s

\* str.strip()
Strip(s) == RStrip(LStrip(s))

\* ------------------------------------------------------- program constants

None == 0

SUPPORTED_BROWSERS ==
    << <<"c","h","r","o","m","e">>,
       <<"f","i","r","e","f","o","x">>,
       <<"e","d","g","e">> >>

\* Browser names a caller may pass are the supported ones, a spelling that only
\* normalisation makes supported, an unsupported one, and pytest's "all".
\* The (browser, headless) arguments of a run.
Launches ==
    { [browser |-> SUPPORTED_BROWSERS[1], headless |-> FALSE],
      [browser |-> SUPPORTED_BROWSERS[2], headless |-> TRUE],
      [browser |-> SUPPORTED_BROWSERS[3], headless |-> FALSE],
      [browser |-> <<" ","E","d","g","e","\n">>, headless |-> TRUE],
      [browser |-> <<"s","a","f","a","r","i">>, headless |-> FALSE],
      [browser |-> <<"A","l","l">>, headless |-> TRUE] }

\* EnvironmentConfig records handed to the manager and the fixture.
Configs ==
    { [environment |-> "dev", base_url |-> "https://dev.example.test/login",
       implicit_wait |-> 10, page_load_timeout |-> 30],
      [environment |-> "staging", base_url |-> "https://staging.example.test/login",
       implicit_wait |-> 5, page_load_timeout |-> 60] }

\* ------------------------------------------------------------------- state

VARIABLES
    entry,          \* what the process runs: a script using DriverManager, or pytest
    browser,        \* DriverManager.browser, or the --browser option of pytest
    config,         \* DriverManager.config, or the config fixture's record
    headless,       \* DriverManager.headless, or the --headless option of pytest
    _driver,        \* DriverManager._driver: None or the id of a session
    state,          \* history: NotStarted until a start() returns, Running from
                    \* then until the next stop(), Stopped after it
    sessions,       \* every session launched so far, by id
    scope,          \* position of a `with manager as driver:` statement
    pending,        \* what __exit__ left for the with statement to do
    fx_pc,          \* position of the initialize_driver generator
    fx_driver,      \* the local `driver` of initialize_driver
    fx_report,      \* what pytest reports for the current test
    fx_item,        \* pytest: index of the test item that runs next (or is running)
    fx_runs,        \* history: the items executed so far, in order
    last            \* the last call: its name, the calls it made, its outcome

VARIABLES
    environ,        \* os.environ: the variables that are set, with their values
    dotenv_file,    \* the .env file load_dotenv() reads
    _config_cache,  \* environment_manager._config_cache
    _dotenv_loaded, \* environment_manager._dotenv_loaded
    env_changes,    \* how often the process changed os.environ so far
    cfg_last,       \* the last get_config / reset_config call and its outcome
    cleared         \* history: the cache as the last reset_config found it

VARIABLES
    host,           \* the machine: what shutil.which and tempfile.gettempdir answer
    fac_last        \* the last call of a factory or an options builder, and its outcome

VARIABLES
    page_timeout,   \* BasePage.timeout, in poll intervals
    page_last       \* the last wait made through BasePage, and its outcome

inputs == <<entry, browser, config, headless>>
mgr == <<_driver, state, scope, pending>>
fx == <<fx_pc, fx_driver, fx_report, fx_item, fx_runs>>
lifecycle == <<inputs, mgr, fx, sessions, last>>
resolver == <<environ, dotenv_file, _config_cache, _dotenv_loaded, env_changes, cfg_last,
              cleared>>
factory == <<host, fac_last>>
page == <<page_timeout, page_last>>
others == <<resolver, factory, page>>
vars == <<lifecycle, others>>

NoPending == [body |-> "none", exc |-> "none", suppress |-> FALSE]

Outcome(op, calls, raised, returned) ==
    [op |-> op, calls |-> calls, raised |-> raised, returned |-> returned]

\* ------------------------------------------------------- the browser session

\* webdriver.Chrome / Firefox / Edge (...): a newly launched session; dir is the
\* download directory its options configure, <<>> when they configure none.
NewSession(name, hl, owner, dir) ==
    [browser |-> name, headless |-> hl, owner |-> owner, state |-> "open",
     download_dir |-> dir, implicit_wait |-> <<>>, page_load_timeout |-> <<>>, url |-> "about:blank",
     maximized |-> FALSE, attached |-> FALSE, quits |-> 0]

\* The calls with the two timeouts of cfg passed the wrong way round.
ApplyCallSwapped(s, call, cfg) ==
    CASE call = "implicitly_wait" ->
            [s EXCEPT !.implicit_wait = <<cfg.page_load_timeout>>]
      [] call = "set_page_load_timeout" ->
            [s EXCEPT !.page_load_timeout = <<cfg.implicit_wait>>]
      [] call = "attach" ->
            [s EXCEPT !.attached = TRUE]
      [] call = "get" ->
            [s EXCEPT !.url = cfg.base_url]
      [] call = "maximize_window" ->
            [s EXCEPT !.maximized = TRUE]

\* One call on a session that succeeds, with the argument the code takes from cfg.
ApplyCall(s, call, cfg) ==
    CASE call = "implicitly_wait" ->
            [s EXCEPT !.implicit_wait = <<cfg.implicit_wait>>]
      [] call = "set_page_load_timeout" ->
            [s EXCEPT !.page_load_timeout = <<cfg.page_load_timeout>>]
      [] call = "attach" ->
            [s EXCEPT !.attached = TRUE]
      [] call = "get" ->
            [s EXCEPT !.url = cfg.base_url]
      [] call = "maximize_window" ->
            [s EXCEPT !.maximized = TRUE]

\* driver.quit(): the session is closed unless the call fails.
Quit(s, fails) ==
    [s EXCEPT !.quits = @ + 1,
              !.state = IF fails THEN @ ELSE "closed"]

\* The calls of `steps` made in order on session id; the one named failAt raises
\* and ends the run.
RECURSIVE RunSteps(_, _, _, _, _, _)
RunSteps(sess, id, steps, cfg, failAt, done) ==
    IF steps = <<>>
    THEN [sessions |-> sess, calls |-> done, raised |-> "none"]
    ELSE IF Head(steps) = failAt
    THEN [sessions |-> sess, calls |-> Append(done, Head(steps)),
          raised |-> "WebDriverException"]
    ELSE RunSteps([sess EXCEPT ![id] = ApplyCall(@, Head(steps), cfg)],
                  id, Tail(steps), cfg, failAt, Append(done, Head(steps)))

\* ---------------------------------------------------------- BrowserFactory

InSupported(name) == \E i \in DOMAIN SUPPORTED_BROWSERS : SUPPORTED_BROWSERS[i] = name

\* ------------------------------------------------ drivers/browser_options

chrome == SUPPORTED_BROWSERS[1]
firefox == SUPPORTED_BROWSERS[2]
edge == SUPPORTED_BROWSERS[3]

\* shutil.which(cmd): <<>> when the command is not on the PATH, else <<path>>.
which(h, cmd) == h[cmd]

\* os.path.join(tempfile.gettempdir(), name)
download_dir(h, name) == <<h.tmpdir, name>>

\* The preferences both Chromium-family builders set.
ChromiumPrefs(dir) ==
    [k \in {"download.default_directory", "download.prompt_for_download",
            "download.directory_upgrade", "safebrowsing.enabled"} |->
        IF k = "download.default_directory" THEN dir
        ELSE IF k = "download.prompt_for_download" THEN <<"False">>
        ELSE <<"True">>]

ChromeOptionsBuilder_build_no_sandbox(hl, h) ==
    [arguments |-> (IF hl THEN <<"--headless=new">> ELSE <<>>) \o
                   <<"--disable-dev-shm-usage", "--disable-extensions",
                     "--disable-notifications", "--window-size=1920,1080",
                     "--incognito">>,
     excludeSwitches |-> <<"enable-logging">>,
     useAutomationExtension |-> FALSE,
     prefs |-> ChromiumPrefs(download_dir(h, "chrome_downloads")),
     binary_location |-> which(h, "chromium")]

\* ChromeOptionsBuilder.build(headless)
ChromeOptionsBuilder_build(hl, h) ==
    [arguments |-> (IF hl THEN <<"--headless=new">> ELSE <<>>) \o
                   <<"--no-sandbox", "--disable-dev-shm-usage", "--disable-extensions",
                     "--disable-notifications", "--window-size=1920,1080",
                     "--incognito">>,
     excludeSwitches |-> <<"enable-logging">>,
     useAutomationExtension |-> FALSE,
     prefs |-> ChromiumPrefs(download_dir(h, "chrome_downloads")),
     binary_location |-> which(h, "chromium")]

\* EdgeOptionsBuilder.build(headless)
EdgeOptionsBuilder_build(hl, h) ==
    [arguments |-> (IF hl THEN <<"--headless=new">> ELSE <<>>) \o
                   <<"--no-sandbox", "--disable-dev-shm-usage", "--disable-extensions",
                     "--disable-notifications", "--window-size=1920,1080",
                     "--inprivate">>,
     excludeSwitches |-> <<"enable-logging">>,
     useAutomationExtension |-> FALSE,
     prefs |-> ChromiumPrefs(download_dir(h, "edge_downloads")),
     binary_location |-> <<>>]

\* The preferences FirefoxOptionsBuilder sets with set_preference.
FirefoxPrefs(dir) ==
    [k \in {"browser.download.folderList", "browser.download.dir",
            "browser.download.manager.showWhenStarting",
            "browser.helperApps.neverAsk.saveToDisk",
            "dom.webnotifications.enabled", "dom.push.enabled", "geo.enabled",
            "browser.cache.disk.enable", "browser.cache.memory.enable",
            "browser.sessionstore.resume_from_crash",
            "security.mixed_content.block_active_content",
            "devtools.console.stdout.content"} |->
        IF k = "browser.download.dir" THEN dir
        ELSE IF k = "browser.download.folderList" THEN <<"2">>
        ELSE IF k = "browser.helperApps.neverAsk.saveToDisk" THEN <<"application/pdf,application/zip,text/csv,application/octet-stream,application/vnd.ms-excel,application/vnd.openxmlformats-officedocument.spreadsheetml.sheet">>
        ELSE IF k \in {"browser.cache.memory.enable", "devtools.console.stdout.content"}
        THEN <<"True">>
        ELSE <<"False">>]

\* FirefoxOptionsBuilder.build(headless); Firefox has no experimental options.
FirefoxOptionsBuilder_build(hl, h) ==
    [arguments |-> (IF hl THEN <<"-headless">> ELSE <<>>) \o
                   <<"--width=1920", "--height=1080", "-private">>,
     excludeSwitches |-> <<>>,
     useAutomationExtension |-> FALSE,
     prefs |-> FirefoxPrefs(download_dir(h, "firefox_downloads")),
     binary_location |-> <<>>]

\* The builder of a browser family.
build(b, hl, h) ==
    IF b = chrome THEN ChromeOptionsBuilder_build(hl, h)
    ELSE IF b = firefox THEN FirefoxOptionsBuilder_build(hl, h)
    ELSE EdgeOptionsBuilder_build(hl, h)

\* ------------------------------------------------- drivers/browser_factory.py

\* options.binary_location = kwargs['binary_location'] when the caller gave one
WithBinary(options, kwargs) ==
    IF "binary_location" \in DOMAIN kwargs
    THEN [options EXCEPT !.binary_location = <<kwargs.binary_location>>]
    ELSE options

\* What webdriver.<Browser>(service=..., options=...) is started with; service is
\* <<>> when no Service object is passed.
Launch(b, options, service) == [browser |-> b, options |-> options, service |-> service]

\* BrowserFactory._create_chrome(headless, **kwargs)
_create_chrome(hl, kwargs, h) ==
    LET options == WithBinary(ChromeOptionsBuilder_build(hl, h), kwargs)
        chromium_driver_path == which(h, "chromedriver")
    IN  IF chromium_driver_path # <<>>
        THEN Launch(chrome, options,
                    <<[executable_path |-> chromium_driver_path,
                       service_args |-> IF "service_args" \in DOMAIN kwargs
                                        THEN kwargs.service_args ELSE <<>>]>>)
        ELSE Launch(chrome, options, <<>>)

\* BrowserFactory._create_firefox(headless, **kwargs)
_create_firefox(hl, kwargs, h) ==
    LET options == WithBinary(FirefoxOptionsBuilder_build(hl, h), kwargs)
    IN  IF "service_args" \in DOMAIN kwargs
        THEN Launch(firefox, options,
                    <<[executable_path |-> <<>>, service_args |-> kwargs.service_args]>>)
        ELSE Launch(firefox, options, <<>>)

\* BrowserFactory._create_edge(headless, **kwargs)
_create_edge(hl, kwargs, h) ==
    LET options == WithBinary(EdgeOptionsBuilder_build(hl, h), kwargs)
    IN  IF "service_args" \in DOMAIN kwargs
        THEN Launch(edge, options,
                    <<[executable_path |-> <<>>, service_args |-> kwargs.service_args]>>)
        ELSE Launch(edge, options, <<>>)

\* The download directory a set of options configures.
DownloadDirOf(options) ==
    IF "download.default_directory" \in DOMAIN options.prefs
    THEN <<options.prefs["download.default_directory"]>>
    ELSE IF "browser.download.dir" \in DOMAIN options.prefs
    THEN <<options.prefs["browser.download.dir"]>>
    ELSE <<>>

create_builds_first(name, hl, kwargs, h, launchFails) ==
    [raised |-> "ValueError", valid_options |-> SUPPORTED_BROWSERS,
     calls |-> <<"build_options">>, launched |-> FALSE, session |-> <<>>,
     launch |-> <<>>]

\* BrowserFactory.create(browser, headless, **kwargs): the session launched and
\* what it was launched with, or the error raised; calls are the steps taken,
\* valid_options the names an error message lists.
create(name, hl, kwargs, h, launchFails) ==
    LET b == Strip(Lower(name)) IN
    IF ~InSupported(b)
    THEN [raised |-> "ValueError", valid_options |-> SUPPORTED_BROWSERS,
          calls |-> <<>>, launched |-> FALSE, session |-> <<>>, launch |-> <<>>]
    ELSE
    LET launch == IF b = chrome THEN _create_chrome(hl, kwargs, h)
                  ELSE IF b = firefox THEN _create_firefox(hl, kwargs, h)
                  ELSE _create_edge(hl, kwargs, h)
    IN  IF launchFails
        THEN [raised |-> "WebDriverException", valid_options |-> <<>>,
              calls |-> <<"build_options", "launch">>, launched |-> FALSE,
              session |-> <<>>, launch |-> <<>>]
        ELSE [raised |-> "none", valid_options |-> <<>>,
              calls |-> <<"build_options", "launch">>, launched |-> TRUE,
              session |-> <<NewSession(b, hl, "manager", DownloadDirOf(launch.options))>>,
              launch |-> <<launch>>]

\* ----------------------------------------------------------- DriverManager

\* DriverManager.browser_options: the manager is constructed without any.
browser_options == <<>>

\* start() with the navigation moved before the timeouts.
StartStepsNavigateFirst ==
    <<"get", "implicitly_wait", "set_page_load_timeout", "maximize_window">>

\* The calls start() makes on the session the factory returned, in order.
StartSteps == <<"implicitly_wait", "set_page_load_timeout", "get", "maximize_window">>

FailPoints == {"none", "create"} \cup {StartSteps[i] : i \in DOMAIN StartSteps}

\* start() past its guard: the factory call, then the calls on the new session.
\* The reference is stored as soon as the factory returns.
create_and_configure(failAt) ==
    LET c == create(browser, headless, browser_options, host, failAt = "create") IN
    IF ~c.launched
    THEN [driver |-> _driver, sessions |-> sessions,
          out |-> Outcome("start", <<"create">>, c.raised, None)]
    ELSE LET id == Len(sessions) + 1
             r  == RunSteps(sessions \o c.session, id, StartSteps, config,
                            failAt, <<"create">>)
         IN [driver |-> id, sessions |-> r.sessions,
             out |-> Outcome("start", r.calls, r.raised,
                             IF r.raised = "none" THEN id ELSE None)]

\* start() without its already-started guard.
start_unguarded(failAt) == create_and_configure(failAt)

\* start() that also refuses an instance that has launched a session before.
start_single_use(failAt) ==
    IF _driver # None \/ sessions # <<>>
    THEN [driver |-> _driver, sessions |-> sessions,
          out |-> Outcome("start", <<>>, "RuntimeError", None)]
    ELSE create_and_configure(failAt)

\* start() that refuses to run again once a start() has failed.
start_refuses_after_failure(failAt) ==
    IF _driver # None \/ (last.op \in {"start", "enter"} /\ last.raised # "none")
    THEN [driver |-> _driver, sessions |-> sessions,
          out |-> Outcome("start", <<>>, "RuntimeError", None)]
    ELSE create_and_configure(failAt)

\* DriverManager.start()
start(failAt) ==
    IF _driver # None
    THEN [driver |-> _driver, sessions |-> sessions,
          out |-> Outcome("start", <<>>, "RuntimeError", None)]
    ELSE create_and_configure(failAt)

\* stop() that quits and keeps the reference.
stop_keeps_ref(quitFails) ==
    IF _driver # None
    THEN [driver |-> _driver,
          sessions |-> [sessions EXCEPT ![_driver] = Quit(@, quitFails)],
          out |-> Outcome("stop", <<"quit">>, "none", None)]
    ELSE [driver |-> _driver, sessions |-> sessions,
          out |-> Outcome("stop", <<>>, "none", None)]

\* stop() without try/except/finally: a failing quit() raises and the reference stays.
stop_no_finally(quitFails) ==
    IF _driver # None
    THEN [driver |-> IF quitFails THEN _driver ELSE None,
          sessions |-> [sessions EXCEPT ![_driver] = Quit(@, quitFails)],
          out |-> Outcome("stop", <<"quit">>,
                          IF quitFails THEN "WebDriverException" ELSE "none", None)]
    ELSE [driver |-> _driver, sessions |-> sessions,
          out |-> Outcome("stop", <<>>, "none", None)]

\* stop() that clears the reference and never calls quit().
stop_skips_quit(quitFails) ==
    [driver |-> None, sessions |-> sessions,
     out |-> Outcome("stop", <<>>, "none", None)]

\* stop() whose handler raises the cleanup error again after clearing the reference.
stop_reraises(quitFails) ==
    IF _driver # None
    THEN [driver |-> None,
          sessions |-> [sessions EXCEPT ![_driver] = Quit(@, quitFails)],
          out |-> Outcome("stop", <<"quit">>,
                          IF quitFails THEN "WebDriverException" ELSE "none", None)]
    ELSE [driver |-> _driver, sessions |-> sessions,
          out |-> Outcome("stop", <<>>, "none", None)]

\* DriverManager.stop(): quit() in try/except/finally.
stop(quitFails) ==
    IF _driver # None
    THEN [driver |-> None,
          sessions |-> [sessions EXCEPT ![_driver] = Quit(@, quitFails)],
          out |-> Outcome("stop", <<"quit">>, "none", None)]
    ELSE [driver |-> _driver, sessions |-> sessions,
          out |-> Outcome("stop", <<>>, "none", None)]

\* DriverManager.driver (the property)
driver ==
    IF _driver = None
    THEN Outcome("driver", <<>>, "RuntimeError", None)
    ELSE Outcome("driver", <<>>, "none", _driver)

\* DriverManager.__enter__
enter(failAt) == start(failAt)

\* __exit__ that stops the driver only when the body ended normally.
exit_on_success_only(exc, quitFails) ==
    IF exc = "none"
    THEN LET r == stop(quitFails) IN
         [driver |-> r.driver, sessions |-> r.sessions, out |-> r.out,
          suppress |-> FALSE]
    ELSE [driver |-> _driver, sessions |-> sessions,
          out |-> Outcome("exit", <<>>, "none", None), suppress |-> FALSE]

\* DriverManager.__exit__(exc_type, exc_val, exc_tb): stop(), then return False.
exit(exc, quitFails) ==
    LET r == stop(quitFails) IN
    [driver |-> r.driver, sessions |-> r.sessions, out |-> r.out, suppress |-> FALSE]

CanLaunch == Len(sessions) < MaxSessions

\* A script drives the manager; between __exit__ and the statement after the
\* with statement nothing else runs.
Idle == entry = "script" /\ scope # "exiting"

StateAfterStart(out) == IF out.raised = "none" THEN "Running" ELSE state

StateAfterStop == IF state = "Running" THEN "Stopped" ELSE state

Start ==
    /\ Idle
    /\ \E failAt \in FailPoints :
        /\ (_driver = None /\ failAt # "create") => CanLaunch
        /\ LET r == start(failAt) IN
            /\ _driver' = r.driver
            /\ sessions' = r.sessions
            /\ state' = StateAfterStart(r.out)
            /\ last' = r.out
    /\ UNCHANGED <<others, inputs, scope, pending, fx>>

Stop ==
    /\ Idle
    /\ \E quitFails \in BOOLEAN :
        LET r == stop(quitFails) IN
            /\ _driver' = r.driver
            /\ sessions' = r.sessions
            /\ state' = IF r.out.raised = "none" THEN StateAfterStop ELSE state
            /\ last' = r.out
    /\ UNCHANGED <<others, inputs, scope, pending, fx>>

Driver ==
    /\ Idle
    /\ last' = driver
    /\ UNCHANGED <<others, inputs, _driver, state, sessions, scope, pending, fx>>

\* `with manager as driver:` calls __enter__ and runs its body when it returns.
Enter ==
    /\ entry = "script"
    /\ scope = "outside"
    /\ \E failAt \in FailPoints :
        /\ (_driver = None /\ failAt # "create") => CanLaunch
        /\ LET r == enter(failAt) IN
            /\ _driver' = r.driver
            /\ sessions' = r.sessions
            /\ state' = StateAfterStart(r.out)
            /\ last' = [r.out EXCEPT !.op = "enter"]
            /\ scope' = IF r.out.raised = "none" THEN "body" ELSE "outside"
    /\ UNCHANGED <<others, inputs, pending, fx>>

\* The body ends, normally or by an error, and the with statement calls
\* __exit__; an error __exit__ raises replaces the body's.
Exit ==
    /\ entry = "script"
    /\ scope = "body"
    /\ \E bodyExc \in {"none", "BodyError"}, quitFails \in BOOLEAN :
        LET r == exit(bodyExc, quitFails) IN
            /\ _driver' = r.driver
            /\ sessions' = r.sessions
            /\ state' = IF r.out.raised = "none" THEN StateAfterStop ELSE state
            /\ last' = [r.out EXCEPT !.op = "exit"]
            /\ pending' = IF r.out.raised # "none"
                          THEN [body |-> bodyExc, exc |-> r.out.raised,
                                suppress |-> FALSE]
                          ELSE [body |-> bodyExc, exc |-> bodyExc,
                                suppress |-> r.suppress]
    /\ scope' = "exiting"
    /\ UNCHANGED <<others, inputs, fx>>

\* The with statement after __exit__ returned: the pending error is raised
\* again unless __exit__ returned a true value.
Leave ==
    /\ scope = "exiting"
    /\ scope' = "outside"
    /\ last' = Outcome("with", <<>>,
                       IF pending.suppress THEN "none" ELSE pending.exc, None)
    /\ UNCHANGED <<others, inputs, _driver, state, sessions, pending, fx>>

\* ------------------------------------------------- conftest.py: the fixture

\* The download directory the _create_* methods of conftest.py configure:
\* "/tmp/downloads" for Chrome and Firefox, none for Edge.
conftest_download_dir(b) ==
    IF b = edge THEN <<>> ELSE << <<"/tmp", "downloads">> >>

\* conftest.BrowserFactory.create_driver: the session launched, or the error.
create_driver(name, hl, launchFails) ==
    LET b == Strip(Lower(name)) IN
    IF b = SUPPORTED_BROWSERS[1] \/ b = SUPPORTED_BROWSERS[2] \/ b = SUPPORTED_BROWSERS[3]
    THEN IF launchFails
         THEN [raised |-> "WebDriverException", valid_options |-> <<>>,
               calls |-> <<"build_options", "launch">>, launched |-> FALSE,
               session |-> <<>>]
         ELSE [raised |-> "none", valid_options |-> <<>>,
               calls |-> <<"build_options", "launch">>, launched |-> TRUE,
               session |-> <<NewSession(b, hl, "fixture", conftest_download_dir(b))>>]
    ELSE [raised |-> "ValueError", valid_options |-> <<chrome, firefox, edge>>,
          calls |-> <<>>, launched |-> FALSE, session |-> <<>>]

\* The calls initialize_driver makes on the new session before its yield.
FixtureSteps ==
    <<"implicitly_wait", "set_page_load_timeout", "attach", "get", "maximize_window">>

FixtureFailPoints == {"none", "create"} \cup {FixtureSteps[i] : i \in DOMAIN FixtureSteps}

pytest_generate_tests_no_all(option) == <<Lower(option)>>

\* pytest_generate_tests: the browser_name values a test runs with.
pytest_generate_tests(option) ==
    LET browser_option == Lower(option) IN
    IF browser_option = <<"a","l","l">>
    THEN SUPPORTED_BROWSERS
    ELSE <<browser_option>>

\* initialize_driver up to its yield: a step that raises ends the generator, and
\* pytest reports an error without running the code after the yield.
initialize_driver(browser_name, hl, failAt) ==
    LET c == create_driver(browser_name, hl, failAt = "create") IN
    IF ~c.launched
    THEN [driver |-> None, sessions |-> sessions, pc |-> "idle", report |-> "error",
          out |-> Outcome("initialize_driver", <<"create">>, c.raised, None)]
    ELSE LET id == Len(sessions) + 1
             r  == RunSteps(sessions \o c.session, id, FixtureSteps, config,
                            failAt, <<"create">>)
         IN IF r.raised = "none"
            THEN [driver |-> id, sessions |-> r.sessions, pc |-> "yielded",
                  report |-> "none",
                  out |-> Outcome("initialize_driver", r.calls, "none", id)]
            ELSE [driver |-> None, sessions |-> r.sessions, pc |-> "idle",
                  report |-> "error",
                  out |-> Outcome("initialize_driver", r.calls, r.raised, None)]

\* initialize_driver after its yield: driver.quit(), whose error is the fixture's.
teardown(quitFails) ==
    [sessions |-> [sessions EXCEPT ![fx_driver] = Quit(@, quitFails)],
     report |-> IF quitFails THEN "error" ELSE fx_report,
     out |-> Outcome("teardown", <<"quit">>,
                     IF quitFails THEN "WebDriverException" ELSE "none", None)]

\* One execution of a test item: its browser_name, the session its fixture
\* created (None when the setup failed) and what pytest reports for it.
Run(browser_name, id, report) ==
    [browser_name |-> browser_name, driver |-> id, report |-> report]

\* The items pytest collected for one test that uses initialize_driver: one per
\* browser_name of the parametrization, run in order, each once.
Items == pytest_generate_tests(browser)

\* pytest sets up the fixture of the next item; an item whose setup raises is
\* reported as an error and is over.
FixtureSetup ==
    /\ entry = "pytest"
    /\ fx_pc = "idle"
    /\ fx_item \in DOMAIN Items
    /\ \E failAt \in FixtureFailPoints :
        LET r == initialize_driver(Items[fx_item], headless, failAt) IN
            /\ fx_driver' = r.driver
            /\ sessions' = r.sessions
            /\ fx_pc' = r.pc
            /\ fx_report' = r.report
            /\ last' = r.out
            /\ fx_item' = IF r.pc = "idle" THEN fx_item + 1 ELSE fx_item
            /\ fx_runs' = IF r.pc = "idle"
                          THEN Append(fx_runs, Run(Items[fx_item], None, r.report))
                          ELSE fx_runs
    /\ UNCHANGED <<others, inputs, mgr>>

\* The test body runs between the yield and the teardown.
RunTest ==
    /\ fx_pc = "yielded"
    /\ \E passed \in BOOLEAN :
        /\ fx_report' = IF passed THEN "passed" ELSE "failed"
        /\ last' = Outcome("test", <<>>, IF passed THEN "none" ELSE "AssertionError", None)
    /\ fx_pc' = "teardown"
    /\ UNCHANGED <<others, inputs, mgr, fx_driver, fx_item, fx_runs, sessions>>

FixtureTeardown ==
    /\ fx_pc = "teardown"
    /\ \E quitFails \in BOOLEAN :
        LET r == teardown(quitFails) IN
            /\ sessions' = r.sessions
            /\ fx_report' = r.report
            /\ last' = r.out
            /\ fx_runs' = Append(fx_runs, Run(Items[fx_item], fx_driver, r.report))
    /\ fx_pc' = "idle"
    /\ fx_driver' = None
    /\ fx_item' = fx_item + 1
    /\ UNCHANGED <<others, inputs, mgr>>

\* ------------------------------------------------------ pages/base_page.py

\* Timeouts, in poll intervals of WebDriverWait.
MaxTimeout == 2

\* A page object is constructed with a timeout of at least one poll interval.
Timeouts == 1..MaxTimeout

\* When the awaited condition becomes true, counted in polls from the start of
\* the wait: <<>> for never.
Appearances == {<<>>} \cup {<<n>> : n \in 0..(MaxTimeout + 1)}

\* WebDriverWait(driver, timeout).until(condition): the condition is tried, then
\* the wait sleeps one poll interval and tries again until the timeout has
\* passed; selenium's TimeoutException carries no message of its own.
until(timeout, appears) ==
    IF appears # <<>> /\ appears[1] <= timeout
    THEN [raised |-> "none", elapsed |-> appears[1], message |-> {}]
    ELSE [raised |-> "TimeoutException", elapsed |-> timeout + 1, message |-> {}]

\* timeout or self.timeout: None and 0 both give the page's timeout.
timeout_or(timeout) ==
    IF timeout = <<>> \/ timeout[1] = 0 THEN page_timeout ELSE timeout[1]

PageOutcome(op, waited, appears, raised, message, returned, elapsed) ==
    [op |-> op, waited |-> waited, appears |-> appears, raised |-> raised,
     message |-> message, returned |-> returned, elapsed |-> elapsed]

\* BasePage.find: the TimeoutException is raised again with a message that
\* names the locator, the timeout and the current URL.
find(appears) ==
    LET w == until(page_timeout, appears) IN
    IF w.raised = "none"
    THEN PageOutcome("find", page_timeout, appears, "none", {}, "element", w.elapsed)
    ELSE PageOutcome("find", page_timeout, appears, "TimeoutException",
                     {"locator", "timeout", "url"}, "nothing", w.elapsed)

\* BasePage.find_all: an empty list when the wait expires.
find_all(appears) ==
    LET w == until(page_timeout, appears) IN
    IF w.raised = "none"
    THEN PageOutcome("find_all", page_timeout, appears, "none", {}, "elements", w.elapsed)
    ELSE PageOutcome("find_all", page_timeout, appears, "none", {}, "[]", w.elapsed)

\* BasePage.wait_until_visible / wait_until_invisible / wait_until_clickable /
\* wait_for_url_contains / wait_for_title_contains: wait.until, nothing caught.
plain_wait(op, timeout, appears) ==
    LET w == until(timeout_or(timeout), appears) IN
    PageOutcome(op, timeout_or(timeout), appears, w.raised, w.message,
                IF w.raised = "none" THEN "value" ELSE "nothing", w.elapsed)

\* BasePage.is_displayed(timeout=5): False when the wait expires.
is_displayed(timeout, appears, displayed) ==
    LET w == until(timeout, appears) IN
    IF w.raised = "none"
    THEN PageOutcome("is_displayed", timeout, appears, "none", {},
                     IF displayed THEN "True" ELSE "False", w.elapsed)
    ELSE PageOutcome("is_displayed", timeout, appears, "none", {}, "False", w.elapsed)

\* The methods that pass their timeout argument to a WebDriverWait of their own.
PlainWaits ==
    {"wait_until_visible", "wait_until_invisible", "wait_until_clickable",
     "wait_for_url_contains", "wait_for_title_contains"}

\* timeout arguments: None, 0 and the timeouts
TimeoutArgs == {<<>>} \cup {<<n>> : n \in 0..MaxTimeout}

PageUnused ==
    /\ page_timeout = 1
    /\ page_last = PageOutcome("init", 0, <<>>, "none", {}, "nothing", 0)

Find ==
    /\ \E appears \in Appearances : page_last' = find(appears)
    /\ UNCHANGED <<lifecycle, resolver, factory, page_timeout>>

FindAll ==
    /\ \E appears \in Appearances : page_last' = find_all(appears)
    /\ UNCHANGED <<lifecycle, resolver, factory, page_timeout>>

PlainWait ==
    /\ \E op \in PlainWaits, timeout \in TimeoutArgs, appears \in Appearances :
        page_last' = plain_wait(op, timeout, appears)
    /\ UNCHANGED <<lifecycle, resolver, factory, page_timeout>>

IsDisplayed ==
    /\ \E timeout \in Timeouts, appears \in Appearances, displayed \in BOOLEAN :
        page_last' = is_displayed(timeout, appears, displayed)
    /\ UNCHANGED <<lifecycle, resolver, factory, page_timeout>>

\* ------------------------------------------- config/environment_manager.py

\* str.upper()
UpperChar(c) ==
    IF \E i \in DOMAIN LowerAlpha : LowerAlpha[i] = c
    THEN UpperAlpha[CHOOSE i \in DOMAIN LowerAlpha : LowerAlpha[i] = c]
    ELSE c

Upper(s) == [i \in DOMAIN s |-> UpperChar(s[i])]

Falsy_none_only(x) == x = <<>>

\* An optional value is <<>> (None) or <<v>>; "if not x" takes None and "" alike.
Falsy(x) == x = <<>> \/ x[1] = ""

dev == <<"d","e","v">>
staging == <<"s","t","a","g","i","n","g">>
prod == <<"p","r","o","d">>

\* The modules of config/environments that importlib can import.
KnownEnvironments == {dev, staging, prod}

config_module_per_environment(env_name) ==
    IF env_name = <<"s","t","a","g","i","n","g">>
    THEN [IMPLICIT_WAIT |-> 5, PAGE_LOAD_TIMEOUT |-> 60, LOG_LEVEL |-> "INFO"]
    ELSE [IMPLICIT_WAIT |-> 10, PAGE_LOAD_TIMEOUT |-> 30, LOG_LEVEL |-> "INFO"]

\* config/environments/<name>.py: the settings of one environment, taken from
\* config/base_config.py (IMPLICIT_WAIT, PAGE_LOAD_TIMEOUT).
config_module(env_name) ==
    [IMPLICIT_WAIT |-> 10, PAGE_LOAD_TIMEOUT |-> 30, LOG_LEVEL |-> "INFO"]

TEST_ENV == <<"T","E","S","T","_","E","N","V">>
BASE_URL == <<"B","A","S","E","_","U","R","L">>
TEST_EMAIL == <<"T","E","S","T","_","E","M","A","I","L">>
TEST_PASSWORD == <<"T","E","S","T","_","P","A","S","S","W","O","R","D">>
API_URL == <<"A","P","I","_","U","R","L">>

RequiredKeys == <<BASE_URL, TEST_EMAIL, TEST_PASSWORD>>

Prefix_not_uppercased(env_name) == env_name \o <<"_">>

\* prefix = env_name.upper() + "_"
Prefix(env_name) == Upper(env_name) \o <<"_">>

\* os.getenv(key): None when the variable is not set.
getenv(env, key) == IF key \in DOMAIN env THEN <<env[key]>> ELSE <<>>

\* os.getenv(key, default)
getenv_default(env, key, default) == IF key \in DOMAIN env THEN env[key] ELSE default

\* load_dotenv(): the variables of the .env file that the process has not set.
load_dotenv(env) ==
    [k \in DOMAIN env \cup DOMAIN dotenv_file |->
        IF k \in DOMAIN env THEN env[k] ELSE dotenv_file[k]]

\* One call of the module: its argument, the env_name it resolved, the error it
\* raised with the variables its message names, the record it returned and the
\* variables it read with os.getenv.
ConfigOutcome(op, arg, env_name, raised, names, returned, reads) ==
    [op |-> op, arg |-> arg, env_name |-> env_name, raised |-> raised,
     names |-> names, returned |-> returned, reads |-> reads]

load_config_validates_first(env, env_name, arg, reads) ==
    LET prefix == Prefix(env_name)
        read3 == reads \o <<prefix \o BASE_URL, prefix \o TEST_EMAIL,
                            prefix \o TEST_PASSWORD>>
    IN  IF Falsy(getenv(env, prefix \o BASE_URL))
        THEN [cache |-> _config_cache,
              out |-> ConfigOutcome("get_config", arg, env_name, "ValueError",
                                    {prefix \o BASE_URL}, <<>>, read3)]
        ELSE [cache |-> _config_cache,
              out |-> ConfigOutcome("get_config", arg, env_name, "ValueError",
                                    {}, <<>>, read3)]

load_config_caches_unvalidated(env, env_name, arg, reads) ==
    LET prefix == Prefix(env_name)
        rec == [environment |-> env_name,
                base_url |-> getenv_default(env, prefix \o BASE_URL, ""),
                api_url |-> getenv_default(env, prefix \o API_URL, ""),
                test_email |-> getenv_default(env, prefix \o TEST_EMAIL, ""),
                test_password |-> getenv_default(env, prefix \o TEST_PASSWORD, ""),
                implicit_wait |-> config_module(env_name).IMPLICIT_WAIT,
                page_load_timeout |-> config_module(env_name).PAGE_LOAD_TIMEOUT,
                log_level |-> config_module(env_name).LOG_LEVEL]
        ok == rec.base_url # "" /\ rec.test_email # "" /\ rec.test_password # ""
    IN [cache |-> [k \in DOMAIN _config_cache \cup {env_name} |->
                      IF k = env_name THEN rec ELSE _config_cache[k]],
        out |-> ConfigOutcome("get_config", arg, env_name,
                              IF ok THEN "none" ELSE "ValueError", {},
                              IF ok THEN <<rec>> ELSE <<>>, reads \o <<prefix \o BASE_URL>>)]

\* get_config past the cache lookup: import the settings module, read the
\* variables of the prefix, validate them one after the other, build and cache
\* the record.
load_config(env, env_name, arg, reads) ==
    IF env_name \notin KnownEnvironments
    THEN [cache |-> _config_cache,
          out |-> ConfigOutcome("get_config", arg, env_name, "ValueError", {}, <<>>, reads)]
    ELSE
    LET prefix == Prefix(env_name)
        base_url == getenv(env, prefix \o BASE_URL)
        test_email == getenv(env, prefix \o TEST_EMAIL)
        test_password == getenv(env, prefix \o TEST_PASSWORD)
        read3 == reads \o <<prefix \o BASE_URL, prefix \o TEST_EMAIL,
                            prefix \o TEST_PASSWORD>>
        fail(key) == [cache |-> _config_cache,
                      out |-> ConfigOutcome("get_config", arg, env_name, "ValueError",
                                            {prefix \o key}, <<>>, read3)]
    IN  IF Falsy(base_url) THEN fail(BASE_URL)
        ELSE IF Falsy(test_email) THEN fail(TEST_EMAIL)
        ELSE IF Falsy(test_password) THEN fail(TEST_PASSWORD)
        ELSE
        LET rec == [environment |-> env_name,
                    base_url |-> base_url[1],
                    api_url |-> getenv_default(env, prefix \o API_URL, ""),
                    test_email |-> test_email[1],
                    test_password |-> test_password[1],
                    implicit_wait |-> config_module(env_name).IMPLICIT_WAIT,
                    page_load_timeout |-> config_module(env_name).PAGE_LOAD_TIMEOUT,
                    log_level |-> config_module(env_name).LOG_LEVEL]
        IN [cache |-> [k \in DOMAIN _config_cache \cup {env_name} |->
                          IF k = env_name THEN rec ELSE _config_cache[k]],
            out |-> ConfigOutcome("get_config", arg, env_name, "none", {}, <<rec>>,
                                  read3 \o <<prefix \o API_URL>>)]

get_config_uncached(arg) ==
    LET env == IF _dotenv_loaded THEN environ ELSE load_dotenv(environ)
        reads0 == IF arg = <<>> THEN <<TEST_ENV>> ELSE <<>>
        given == IF arg = <<>> THEN getenv_default(env, TEST_ENV, dev) ELSE arg[1]
        env_name == Strip(Lower(given))
        r == load_config(env, env_name, arg, reads0)
    IN [environ |-> env, loaded |-> TRUE, cache |-> r.cache, out |-> r.out]

get_config_ignores_TEST_ENV(arg) ==
    LET env == IF _dotenv_loaded THEN environ ELSE load_dotenv(environ)
        reads0 == <<>>
        given == IF arg = <<>> THEN dev ELSE arg[1]
        env_name == Strip(Lower(given))
    IN  IF env_name \in DOMAIN _config_cache
        THEN [environ |-> env, loaded |-> TRUE, cache |-> _config_cache,
              out |-> ConfigOutcome("get_config", arg, env_name, "none", {},
                                    <<_config_cache[env_name]>>, reads0)]
        ELSE LET r == load_config(env, env_name, arg, reads0)
             IN [environ |-> env, loaded |-> TRUE, cache |-> r.cache, out |-> r.out]

get_config_case_sensitive(arg) ==
    LET env == IF _dotenv_loaded THEN environ ELSE load_dotenv(environ)
        reads0 == IF arg = <<>> THEN <<TEST_ENV>> ELSE <<>>
        given == IF arg = <<>> THEN getenv_default(env, TEST_ENV, dev) ELSE arg[1]
        env_name == Strip(given)
    IN  IF env_name \in DOMAIN _config_cache
        THEN [environ |-> env, loaded |-> TRUE, cache |-> _config_cache,
              out |-> ConfigOutcome("get_config", arg, env_name, "none", {},
                                    <<_config_cache[env_name]>>, reads0)]
        ELSE LET r == load_config(env, env_name, arg, reads0)
             IN [environ |-> env, loaded |-> TRUE, cache |-> r.cache, out |-> r.out]

\* get_config(env_name): arg is <<>> for None, <<name>> for a name.
get_config(arg) ==
    LET env == IF _dotenv_loaded THEN environ ELSE load_dotenv(environ)
        reads0 == IF arg = <<>> THEN <<TEST_ENV>> ELSE <<>>
        given == IF arg = <<>> THEN getenv_default(env, TEST_ENV, dev) ELSE arg[1]
        env_name == Strip(Lower(given))
    IN  IF env_name \in DOMAIN _config_cache
        THEN [environ |-> env, loaded |-> TRUE, cache |-> _config_cache,
              out |-> ConfigOutcome("get_config", arg, env_name, "none", {},
                                    <<_config_cache[env_name]>>, reads0)]
        ELSE LET r == load_config(env, env_name, arg, reads0)
             IN [environ |-> env, loaded |-> TRUE, cache |-> r.cache, out |-> r.out]

reset_config_keeps_dotenv_flag ==
    [cache |-> <<>>, loaded |-> _dotenv_loaded,
     out |-> ConfigOutcome("reset_config", <<>>, <<>>, "none", {}, <<>>, <<>>)]

\* reset_config()
reset_config ==
    [cache |-> <<>>, loaded |-> FALSE,
     out |-> ConfigOutcome("reset_config", <<>>, <<>>, "none", {}, <<>>, <<>>)]

\* ---------------------------------------------------- the resolver's inputs

\* Changes the process makes to os.environ in one run.
MaxEnvChanges == 1

\* Names a caller passes to get_config: None, known names as written and in
\* spellings only normalisation makes known, and an unknown one.
EnvNameArgs ==
    { <<>>, <<dev>>, << <<" ","D","e","v","\t">> >>, <<staging>>,
      << <<"S","T","A","G","I","N","G">> >>, << <<"q","a">> >> }

\* The variables the process changes while it runs.
EnvVarNames ==
    {Prefix(dev) \o k : k \in {BASE_URL, TEST_EMAIL, API_URL}}
        \cup {Prefix(staging) \o BASE_URL}

EnvValues == {"", "changed"}

\* os.environ when the process starts: all, two, one or none of the required
\* dev variables.
InitialEnvirons ==
    { [k \in S |-> IF k = Prefix(dev) \o BASE_URL THEN "https://example.test/login"
                   ELSE IF k = Prefix(dev) \o TEST_EMAIL THEN "a@b.com"
                   ELSE "secret"] :
        S \in { {Prefix(dev) \o BASE_URL, Prefix(dev) \o TEST_EMAIL, Prefix(dev) \o TEST_PASSWORD},
                {Prefix(dev) \o BASE_URL, Prefix(dev) \o TEST_PASSWORD},
                {Prefix(dev) \o TEST_PASSWORD},
                {} } }

\* .env files: none, and one that selects and defines the staging environment.
DotenvFiles ==
    { <<>>,
      [k \in {TEST_ENV} \cup {Prefix(staging) \o RequiredKeys[i] : i \in DOMAIN RequiredKeys}
          |-> IF k = TEST_ENV THEN <<"S","t","a","g","i","n","g"," ">>
              ELSE IF k = Prefix(staging) \o BASE_URL THEN "https://staging.example.test/login"
              ELSE IF k = Prefix(staging) \o TEST_EMAIL THEN "s@b.com"
              ELSE "s3cret"] }

NoCall ==
    [op |-> "init", browser |-> <<>>, headless |-> FALSE, kwargs |-> <<>>,
     raised |-> "none", valid_options |-> <<>>, calls |-> <<>>, launch |-> <<>>,
     options |-> <<>>]

FactoryUnused ==
    /\ host = [chromedriver |-> <<>>, chromium |-> <<>>, tmpdir |-> "/tmp"]
    /\ fac_last = NoCall

ResolverUnused ==
    /\ environ = <<>>
    /\ dotenv_file = <<>>
    /\ _config_cache = <<>>
    /\ _dotenv_loaded = FALSE
    /\ env_changes = 0
    /\ cfg_last = ConfigOutcome("init", <<>>, <<>>, "none", {}, <<>>, <<>>)
    /\ cleared = <<>>

GetConfig ==
    /\ \E arg \in EnvNameArgs :
        LET r == get_config(arg) IN
            /\ environ' = r.environ
            /\ _dotenv_loaded' = r.loaded
            /\ _config_cache' = r.cache
            /\ cfg_last' = r.out
    /\ UNCHANGED <<lifecycle, factory, page, dotenv_file, env_changes, cleared>>

ResetConfig ==
    /\ _config_cache' = reset_config.cache
    /\ _dotenv_loaded' = reset_config.loaded
    /\ cfg_last' = reset_config.out
    /\ cleared' = _config_cache
    /\ UNCHANGED <<lifecycle, factory, page, environ, dotenv_file, env_changes>>

\* os.environ[key] = value, by the process itself
SetEnv ==
    /\ env_changes < MaxEnvChanges
    /\ \E key \in EnvVarNames, value \in EnvValues :
        /\ environ' = [k \in DOMAIN environ \cup {key} |->
                          IF k = key THEN value ELSE environ[k]]
    /\ env_changes' = env_changes + 1
    /\ UNCHANGED <<lifecycle, factory, page, dotenv_file, _config_cache, _dotenv_loaded, cfg_last,
                   cleared>>

\* del os.environ[key]
UnsetEnv ==
    /\ env_changes < MaxEnvChanges
    /\ \E key \in DOMAIN environ :
        environ' = [k \in DOMAIN environ \ {key} |-> environ[k]]
    /\ env_changes' = env_changes + 1
    /\ UNCHANGED <<lifecycle, factory, page, dotenv_file, _config_cache, _dotenv_loaded, cfg_last,
                   cleared>>

LifecycleUnused ==
    /\ entry = "none"
    /\ browser = SUPPORTED_BROWSERS[1]
    /\ headless = FALSE
    /\ config \in {c \in Configs : c.environment = "dev"}
    /\ state = "NotStarted"
    /\ _driver = None
    /\ sessions = <<>>
    /\ scope = "outside"
    /\ pending = NoPending
    /\ fx_pc = "idle"
    /\ fx_driver = None
    /\ fx_report = "none"
    /\ fx_item = 1
    /\ fx_runs = <<>>
    /\ last = Outcome("init", <<>>, "none", None)

InitConfig ==
    /\ LifecycleUnused
    /\ environ \in InitialEnvirons
    /\ dotenv_file \in DotenvFiles
    /\ _config_cache = <<>>
    /\ _dotenv_loaded = FALSE
    /\ env_changes = 0
    /\ cfg_last = ConfigOutcome("init", <<>>, <<>>, "none", {}, <<>>, <<>>)
    /\ cleared = <<>>
    /\ FactoryUnused
    /\ PageUnused

NextConfig ==
    \/ GetConfig
    \/ ResetConfig
    \/ SetEnv
    \/ UnsetEnv

SpecConfig == InitConfig /\ [][NextConfig]_vars

\* ------------------------------------------- the factories called directly

\* Machines: with or without chromedriver and chromium on the PATH.
Hosts ==
    [chromedriver : {<<>>, <<"/usr/bin/chromedriver">>},
     chromium : {<<>>, <<"/usr/bin/chromium">>},
     tmpdir : {"/tmp"}]

\* The overrides a caller passes to BrowserFactory.create: any subset of
\* binary_location, service_args and prefs.
KwargValue(k) ==
    IF k = "binary_location" THEN "/opt/browser/bin"
    ELSE IF k = "service_args" THEN <<"--verbose">>
    ELSE [p \in {"download.default_directory", "browser.download.dir"} |->
             <<"/data", "downloads">>]

Kwargs ==
    { [k \in S |-> KwargValue(k)] : S \in SUBSET {"binary_location", "service_args", "prefs"} }

FactoryOutcome(op, name, hl, kwargs, out, options) ==
    [op |-> op, browser |-> name, headless |-> hl, kwargs |-> kwargs,
     raised |-> out.raised, valid_options |-> out.valid_options,
     calls |-> out.calls, launch |-> out.launch, options |-> options]

\* <Browser>OptionsBuilder.build(headless=...)
Build ==
    /\ \E i \in DOMAIN SUPPORTED_BROWSERS, hl \in BOOLEAN :
        fac_last' = FactoryOutcome("build", SUPPORTED_BROWSERS[i], hl, <<>>,
                        [raised |-> "none", valid_options |-> <<>>,
                         calls |-> <<"build_options">>, launch |-> <<>>],
                        <<build(SUPPORTED_BROWSERS[i], hl, host)>>)
    /\ UNCHANGED <<lifecycle, resolver, host, page>>

\* BrowserFactory.create(browser, headless, **kwargs)
Create ==
    /\ \E l \in Launches, kwargs \in Kwargs, launchFails \in BOOLEAN :
        fac_last' = FactoryOutcome("create", l.browser, l.headless, kwargs,
                        create(l.browser, l.headless, kwargs, host, launchFails), <<>>)
    /\ UNCHANGED <<lifecycle, resolver, host, page>>

\* conftest.BrowserFactory.create_driver(browser, headless)
CreateDriver ==
    /\ \E l \in Launches, launchFails \in BOOLEAN :
        LET c == create_driver(l.browser, l.headless, launchFails) IN
        fac_last' = FactoryOutcome("create_driver", l.browser, l.headless, <<>>,
                        [raised |-> c.raised, valid_options |-> c.valid_options,
                         calls |-> c.calls, launch |-> <<>>], <<>>)
    /\ UNCHANGED <<lifecycle, resolver, host, page>>

InitFactory ==
    /\ LifecycleUnused
    /\ ResolverUnused
    /\ host \in Hosts
    /\ fac_last = NoCall
    /\ PageUnused

NextFactory ==
    \/ Build
    \/ Create
    \/ CreateDriver

SpecFactory == InitFactory /\ [][NextFactory]_vars

\* The specification of the waits of BasePage.
InitPage ==
    /\ LifecycleUnused
    /\ ResolverUnused
    /\ FactoryUnused
    /\ page_timeout \in Timeouts
    /\ page_last = PageOutcome("init", 0, <<>>, "none", {}, "nothing", 0)

NextPage ==
    \/ Find
    \/ FindAll
    \/ PlainWait
    \/ IsDisplayed

SpecPage == InitPage /\ [][NextPage]_vars

Init ==
    /\ entry \in {"script", "pytest"}
    /\ \E l \in Launches : browser = l.browser /\ headless = l.headless
    /\ config \in Configs
    /\ state = "NotStarted"
    /\ _driver = None
    /\ sessions = <<>>
    /\ scope = "outside"
    /\ pending = NoPending
    /\ fx_pc = "idle"
    /\ fx_driver = None
    /\ fx_report = "none"
    /\ fx_item = 1
    /\ fx_runs = <<>>
    /\ last = Outcome("init", <<>>, "none", None)
    /\ ResolverUnused
    /\ FactoryUnused
    /\ PageUnused

Next ==
    \/ Start
    \/ Stop
    \/ Driver
    \/ Enter
    \/ Exit
    \/ Leave
    \/ FixtureSetup
    \/ RunTest
    \/ FixtureTeardown

Spec == Init /\ [][Next]_vars

\* ------------------------------------------------------------------ claims

ManagerSessions == {i \in DOMAIN sessions : sessions[i].owner = "manager"}

IsBefore(calls, a, b) ==
    \A j \in DOMAIN calls :
        calls[j] = b => \E k \in 1..(j - 1) : calls[k] = a

Count(calls, a) == Cardinality({j \in DOMAIN calls : calls[j] = a})

Without(calls, a) ==
    LET F[k \in 0..Len(calls)] ==
            IF k = 0 THEN <<>>
            ELSE IF calls[k] = a THEN F[k - 1] ELSE Append(F[k - 1], calls[k])
    IN F[Len(calls)]

\* C1: start() on a Running manager raises RuntimeError, makes no call to the
\* factory or to any session, and leaves the session reference and the session
\* (still open) as they were.
C1_StartWhileRunningRejected ==
    [][(state = "Running" /\ last'.op = "start")
        => /\ last'.raised = "RuntimeError"
           /\ last'.calls = <<>>
           /\ _driver' = _driver
           /\ sessions' = sessions
           /\ _driver \in DOMAIN sessions
           /\ sessions'[_driver].state = "open"
           /\ state' = "Running"]_vars

C1_Witness ==
    /\ state = "Running"
    /\ last.op = "start"
    /\ last.raised = "RuntimeError"
    /\ sessions[_driver].state = "open"

\* C2: stop() never raises, whatever the state; a stop() that directly follows
\* a stop() issues no quit and changes neither the reference, nor any session,
\* nor the lifecycle state.
C2_StopIdempotent ==
    [][last'.op = "stop"
        => /\ last'.raised = "none"
           /\ last.op = "stop"
                => /\ last'.calls = <<>>
                   /\ _driver' = _driver
                   /\ sessions' = sessions
                   /\ state' = state]_vars

C2_Witness ==
    /\ state = "Stopped"
    /\ last.op = "stop"
    /\ last.calls = <<>>
    /\ _driver = None
    /\ \A i \in ManagerSessions : sessions[i].quits = 1

\* C3: a stop() on a Running manager whose quit() fails (the session is still
\* open afterwards) returns normally, and the reference is cleared as it is
\* when quit() succeeds.
C3_StopSwallowsCloseFailure ==
    [][(state = "Running" /\ last'.op = "stop")
        => /\ last'.calls = <<"quit">>
           /\ sessions'[_driver].quits = sessions[_driver].quits + 1
           /\ last'.raised = "none"
           /\ _driver' = None
           /\ state' = "Stopped"]_vars

C3_Witness ==
    /\ last.op = "stop"
    /\ last.calls = <<"quit">>
    /\ state = "Stopped"
    /\ _driver = None
    /\ Len(sessions) = 1
    /\ sessions[1].state = "open"
    /\ sessions[1].quits = 1

\* C4: the driver accessor returns a session exactly when the manager is
\* Running, and raises RuntimeError otherwise; what it returns is an open session.
C4_AccessorIffRunning ==
    last.op = "driver"
        => /\ (last.raised = "none") <=> (state = "Running")
           /\ last.raised # "none" => last.raised = "RuntimeError"
           /\ last.raised = "none"
                => /\ last.returned \in DOMAIN sessions
                   /\ sessions[last.returned].state = "open"

\* C5 as stated: once Stopped, the instance never becomes Running again.
C5_StoppedIsTerminal ==
    [][state = "Stopped" => state' # "Running"]_vars

\* C5 as amended: stop() on a Running instance clears the reference, so the
\* next start() on the instance is not rejected: it calls the factory again
\* and, when it succeeds, the instance is Running with a session launched by
\* that call, never one that was stopped.
C5_RestartAfterStop ==
    [][(state = "Stopped" /\ _driver = None /\ last'.op = "start")
        => /\ last'.raised # "RuntimeError"
           /\ last'.calls # <<>>
           /\ Head(last'.calls) = "create"
           /\ last'.raised = "none"
                => /\ state' = "Running"
                   /\ _driver' = last'.returned
                   /\ _driver' \notin DOMAIN sessions
                   /\ _driver' \in DOMAIN sessions'
                   /\ sessions'[_driver'].quits = 0
                   /\ sessions'[_driver'].state = "open"
                   /\ \A i \in DOMAIN sessions : sessions'[i] = sessions[i]]_vars

C5_Witness ==
    /\ state = "Running"
    /\ last.op = "start"
    /\ last.raised = "none"
    /\ _driver = 2
    /\ sessions[1].quits = 1
    /\ sessions[1].maximized

\* C6 as stated: at most one session of the instance is open (launched and not
\* successfully quit).
C6_AtMostOneOpen ==
    Cardinality({i \in ManagerSessions : sessions[i].state = "open"}) <= 1

\* C6 as amended: at most one session of the instance is open with no quit()
\* issued on it, and it is the one the instance references; a session whose
\* quit() failed stays open and unreferenced, next to a session started later.
C6_AtMostOneOpenUnquit ==
    \A i \in ManagerSessions :
        (sessions[i].state = "open" /\ sessions[i].quits = 0) => i = _driver

C6_Witness ==
    /\ Cardinality({i \in ManagerSessions : sessions[i].state = "open"}) = 2
    /\ _driver = 2
    /\ sessions[1].quits = 1
    /\ sessions[2].quits = 0

\* C7: a start() that returns has called, once each and in this order, the
\* factory, implicitly_wait, set_page_load_timeout, get and maximize_window;
\* no start(), failed or not, navigates before both timeouts are applied; the
\* fixture makes the same calls in the same order before its yield.
C7_StartOrder ==
    LET order == <<"create", "implicitly_wait", "set_page_load_timeout",
                   "get", "maximize_window">>
    IN /\ (last.op \in {"start", "enter"} /\ last.raised = "none")
            => last.calls = order
       /\ last.op \in {"start", "enter", "initialize_driver"}
            => /\ IsBefore(last.calls, "implicitly_wait", "get")
               /\ IsBefore(last.calls, "set_page_load_timeout", "get")
               /\ \A c \in {order[k] : k \in DOMAIN order} : Count(last.calls, c) <= 1
       /\ (last.op = "initialize_driver" /\ last.raised = "none")
            => Without(last.calls, "attach") = order

C7_Witness ==
    /\ last.op = "start"
    /\ last.raised = "none"
    /\ sessions[_driver].maximized
    /\ sessions[_driver].url = config.base_url

\* C8: when the with statement has left its body, normally or by an error, and
\* before anything after it runs, the reference is cleared and quit() has been
\* issued on every session the instance launched.
C8_ScopeExitStops ==
    scope = "exiting"
        => /\ _driver = None
           /\ \A i \in ManagerSessions : sessions[i].quits >= 1

C8_Witness ==
    /\ scope = "exiting"
    /\ pending.body = "BodyError"
    /\ Len(sessions) = 1
    /\ sessions[1].quits = 1

\* C9: what leaves the with statement is what the body raised, nothing when it
\* raised nothing: __exit__ neither suppresses the error nor replaces it by a
\* cleanup error, also when quit() fails.
C9_BodyErrorPropagates ==
    /\ scope = "exiting" => (pending.exc = pending.body /\ ~pending.suppress)
    /\ last.op = "with" => last.raised = pending.body

C9_Witness ==
    /\ last.op = "with"
    /\ last.raised = "BodyError"
    /\ Len(sessions) = 1
    /\ sessions[1].quits = 1
    /\ sessions[1].state = "open"

\* C10: the session a successful start() returns is of the supported browser
\* the name normalises to, its current URL is the base_url of the manager's
\* config, and its implicit wait and page-load timeout are that config's.
C10_StartedSessionConfigured ==
    (last.op \in {"start", "enter"} /\ last.raised = "none")
        => /\ last.returned = _driver
           /\ _driver \in DOMAIN sessions
           /\ InSupported(sessions[_driver].browser)
           /\ sessions[_driver].browser = Strip(Lower(browser))
           /\ sessions[_driver].url = config.base_url
           /\ sessions[_driver].implicit_wait = <<config.implicit_wait>>
           /\ sessions[_driver].page_load_timeout = <<config.page_load_timeout>>

C10_Witness ==
    /\ last.op = "start"
    /\ last.raised = "none"
    /\ browser = <<" ","E","d","g","e","\n">>
    /\ sessions[_driver].browser = SUPPORTED_BROWSERS[3]
    /\ sessions[_driver].url = config.base_url

\* ------------------------------------------------ claims on the configuration

\* A step that is one call of get_config.
GetConfigStep == cfg_last'.op = "get_config" /\ env_changes' = env_changes

RequiredVars(env_name) == {Prefix(env_name) \o RequiredKeys[i] : i \in DOMAIN RequiredKeys}

PrefixedVars(env_name) == RequiredVars(env_name) \cup {Prefix(env_name) \o API_URL}

ReadSet(out) == {out.reads[i] : i \in DOMAIN out.reads}

\* The name a call resolves: its argument, else TEST_ENV, else "dev", normalized.
Normalized(arg, env) ==
    Strip(Lower(IF arg = <<>> THEN getenv_default(env, TEST_ENV, dev) ELSE arg[1]))

\* C11: once get_config has cached the record of a normalized name, every later
\* get_config of that name (no reset_config in between) returns that very record
\* and reads none of the environment's variables, whatever they were changed to;
\* the cache keeps the record.
C11_CachedRecordReturnedUnread ==
    [][(GetConfigStep /\ cfg_last'.env_name \in DOMAIN _config_cache) =>
          /\ cfg_last'.raised = "none"
          /\ cfg_last'.returned = <<_config_cache[cfg_last'.env_name]>>
          /\ ReadSet(cfg_last') \cap PrefixedVars(cfg_last'.env_name) = {}
          /\ _config_cache' = _config_cache]_vars

\* a second get_config("dev") answered from the cache after DEV_BASE_URL changed
C11_Witness ==
    /\ cfg_last.op = "get_config"
    /\ cfg_last.env_name = dev
    /\ cfg_last.returned # <<>>
    /\ ReadSet(cfg_last) \cap PrefixedVars(dev) = {}
    /\ getenv(environ, Prefix(dev) \o BASE_URL) # <<cfg_last.returned[1].base_url>>

\* C12: when a non-empty subset of the three required variables of a known
\* environment is unset, get_config raises a ValueError whose one message names
\* every variable of that subset.
C12_EveryMissingVariableNamed ==
    [][(/\ GetConfigStep
        /\ cfg_last'.env_name \in KnownEnvironments
        /\ cfg_last'.env_name \notin DOMAIN _config_cache
        /\ RequiredVars(cfg_last'.env_name) \ DOMAIN environ' # {}) =>
          /\ cfg_last'.raised = "ValueError"
          /\ cfg_last'.names = RequiredVars(cfg_last'.env_name) \ DOMAIN environ']_vars

\* C13: get_config of a name with no settings module raises ValueError before it
\* reads any required variable, returns no record and caches nothing.
C13_UnknownEnvironmentRejected ==
    [][(GetConfigStep /\ cfg_last'.env_name \notin KnownEnvironments) =>
          /\ cfg_last'.raised = "ValueError"
          /\ cfg_last'.returned = <<>>
          /\ cfg_last'.names = {}
          /\ ReadSet(cfg_last') \subseteq {TEST_ENV}
          /\ _config_cache' = _config_cache]_vars

C13_Witness ==
    /\ cfg_last.op = "get_config"
    /\ cfg_last.arg = << <<"q","a">> >>
    /\ cfg_last.raised = "ValueError"

\* The record carries the values the variables of its environment have.
Matches(rec, env, env_name) ==
    /\ rec.environment = env_name
    /\ rec.base_url = env[Prefix(env_name) \o BASE_URL]
    /\ rec.test_email = env[Prefix(env_name) \o TEST_EMAIL]
    /\ rec.test_password = env[Prefix(env_name) \o TEST_PASSWORD]
    /\ rec.api_url = getenv_default(env, Prefix(env_name) \o API_URL, "")

\* C14 as stated: whenever the three required variables of a known environment
\* are set, get_config returns the record that carries their values.
C14_RecordCarriesVariables ==
    [][GetConfigStep =>
        /\ cfg_last'.env_name = Normalized(cfg_last'.arg, environ')
        /\ (/\ cfg_last'.env_name \in KnownEnvironments
            /\ RequiredVars(cfg_last'.env_name) \subseteq DOMAIN environ') =>
              /\ cfg_last'.raised = "none"
              /\ cfg_last'.returned # <<>>
              /\ Matches(cfg_last'.returned[1], environ', cfg_last'.env_name)]_vars

\* C14: when get_config resolves a known environment that is not in the cache
\* and whose three required variables are set to non-empty values, it returns
\* the record whose environment is the normalized name (from TEST_ENV, default
\* "dev", when no name is passed) and whose base_url, test_email, test_password
\* and api_url are the values of the <PREFIX>_ variables at that moment (api_url
\* empty when unset).
C14_FirstResolutionCarriesVariables ==
    [][GetConfigStep =>
        /\ cfg_last'.env_name = Normalized(cfg_last'.arg, environ')
        /\ (/\ cfg_last'.env_name \in KnownEnvironments
            /\ cfg_last'.env_name \notin DOMAIN _config_cache
            /\ \A v \in RequiredVars(cfg_last'.env_name) : ~Falsy(getenv(environ', v))) =>
              /\ cfg_last'.raised = "none"
              /\ cfg_last'.returned # <<>>
              /\ Matches(cfg_last'.returned[1], environ', cfg_last'.env_name)]_vars

\* get_config() with no name resolved the environment TEST_ENV of the .env file
\* selects, written there as "Staging "
C14_Witness ==
    /\ cfg_last.op = "get_config"
    /\ cfg_last.arg = <<>>
    /\ cfg_last.returned # <<>>
    /\ cfg_last.returned[1].environment = staging
    /\ cfg_last.returned[1].base_url = "https://staging.example.test/login"
    /\ ReadSet(cfg_last) \cap RequiredVars(staging) # {}

IsNormalized(name) == Strip(Lower(name)) = name

\* C15: the cache is keyed by the normalized name: every key is normalized and
\* holds the record of that environment, no two keys normalize to the same
\* name, and a call whose name normalizes to a key of the cache returns the
\* record under that key.
C15_CacheKeyedByNormalizedName ==
    /\ [](/\ \A k \in DOMAIN _config_cache :
                IsNormalized(k) /\ _config_cache[k].environment = k
          /\ \A k1, k2 \in DOMAIN _config_cache :
                Strip(Lower(k1)) = Strip(Lower(k2)) => k1 = k2)
    /\ [][(/\ GetConfigStep
           /\ cfg_last'.arg # <<>>
           /\ Strip(Lower(cfg_last'.arg[1])) \in DOMAIN _config_cache) =>
             /\ cfg_last'.returned = <<_config_cache[Strip(Lower(cfg_last'.arg[1]))]>>
             /\ DOMAIN _config_cache' = DOMAIN _config_cache]_vars

\* get_config("STAGING") answered with the record cached under "staging"
C15_Witness ==
    /\ cfg_last.op = "get_config"
    /\ cfg_last.arg = << <<"S","T","A","G","I","N","G">> >>
    /\ cfg_last.returned # <<>>
    /\ ReadSet(cfg_last) = {}
    /\ staging \in DOMAIN _config_cache
    /\ cfg_last.returned[1] = _config_cache[staging]

WellFormed(rec) ==
    /\ rec.base_url # ""
    /\ rec.test_email # ""
    /\ rec.test_password # ""
    /\ rec.implicit_wait \in Nat \ {0}
    /\ rec.page_load_timeout \in Nat \ {0}

Elements(seq) == {seq[i] : i \in DOMAIN seq}

\* C18: for a browser name that is not chrome, firefox or edge after lowercasing
\* and trimming, BrowserFactory.create (and the create_driver of conftest.py)
\* raises ValueError with a message listing the supported names, having built no
\* options and launched nothing.
C18_UnsupportedBrowserRejected ==
    (/\ fac_last.op \in {"create", "create_driver"}
     /\ ~InSupported(Strip(Lower(fac_last.browser)))) =>
        /\ fac_last.raised = "ValueError"
        /\ Elements(fac_last.valid_options) = Elements(SUPPORTED_BROWSERS)
        /\ fac_last.calls = <<>>
        /\ fac_last.launch = <<>>

\* BrowserFactory.create('safari', binary_location=...) was refused
C18_Witness ==
    /\ fac_last.op = "create"
    /\ fac_last.browser = <<"s","a","f","a","r","i">>
    /\ "binary_location" \in DOMAIN fac_last.kwargs
    /\ fac_last.raised = "ValueError"

\* C19: every override passed to a successful BrowserFactory.create is applied
\* to the launch, for every browser and on both launch paths: binary_location
\* becomes the options' binary (over an auto-detected one), service_args reach
\* the driver service, and every entry of prefs for a preference the browser's
\* options carry has the caller's value there.
C19_OverridesApplied ==
    (fac_last.op = "create" /\ fac_last.launch # <<>>) =>
        LET launch == fac_last.launch[1]
            kwargs == fac_last.kwargs
        IN  /\ "binary_location" \in DOMAIN kwargs =>
                  launch.options.binary_location = <<kwargs.binary_location>>
            /\ "service_args" \in DOMAIN kwargs =>
                  /\ launch.service # <<>>
                  /\ launch.service[1].service_args = kwargs.service_args
            /\ "prefs" \in DOMAIN kwargs =>
                  \A k \in DOMAIN kwargs.prefs \cap DOMAIN launch.options.prefs :
                      launch.options.prefs[k] = kwargs.prefs[k]

HeadlessFlags == {"--headless=new", "--headless", "-headless"}

\* C20: the Chrome and Edge builders put --no-sandbox and --disable-dev-shm-usage
\* into the options whatever headless is, and a headless flag exactly when
\* headless is true.
C20_ChromiumHeadlessAndSandboxFlags ==
    (fac_last.op = "build" /\ fac_last.browser \in {chrome, edge}) =>
        LET arguments == Elements(fac_last.options[1].arguments) IN
            /\ "--no-sandbox" \in arguments
            /\ "--disable-dev-shm-usage" \in arguments
            /\ fac_last.headless <=> arguments \cap HeadlessFlags # {}

\* ChromeOptionsBuilder.build(headless=True) on a host with chromium installed
C20_Witness ==
    /\ fac_last.op = "build"
    /\ fac_last.browser = chrome
    /\ fac_last.headless
    /\ "--headless=new" \in Elements(fac_last.options[1].arguments)
    /\ host.chromium # <<>>

\* C21: an options builder gives the same options for the same headless value on
\* every host, whether or not chromium or chromedriver are on the PATH.
C21_BuilderIgnoresHost ==
    fac_last.op = "build" =>
        \A h \in Hosts :
            build(fac_last.browser, fac_last.headless, h) = fac_last.options[1]

\* --------------------------------------------- further claims on the sessions

\* C22: any two sessions that are open at the same time are configured with
\* different download directories.
C22_DownloadDirPerSession ==
    \A i, j \in DOMAIN sessions :
        (i # j /\ sessions[i].state = "open" /\ sessions[j].state = "open") =>
            /\ sessions[i].download_dir # <<>>
            /\ sessions[i].download_dir # sessions[j].download_dir

\* The browser names the --browser option asks for.
Selected ==
    IF Lower(browser) = <<"a","l","l">> THEN <<chrome, firefox, edge>>
    ELSE <<Lower(browser)>>

\* C23: a test that uses the fixture is executed once per selected browser name,
\* in "all" mode once for each of chrome, firefox and edge and otherwise once:
\* the executions so far are the first names of the selection in order, the
\* next name is due whatever the earlier executions reported, and every
\* execution whose setup succeeded has a session of its browser that no other
\* execution has.
C23_OncePerSelectedBrowser ==
    entry = "pytest" =>
        /\ Len(fx_runs) <= Len(Selected)
        /\ \A k \in DOMAIN fx_runs : fx_runs[k].browser_name = Selected[k]
        /\ fx_item = Len(fx_runs) + 1
        /\ (fx_pc = "idle" /\ Len(fx_runs) < Len(Selected)) => fx_item \in DOMAIN Items
        /\ \A k \in DOMAIN fx_runs :
              fx_runs[k].driver # None =>
                  /\ fx_runs[k].driver \in DOMAIN sessions
                  /\ sessions[fx_runs[k].driver].browser = Strip(fx_runs[k].browser_name)
                  /\ \A l \in DOMAIN fx_runs : l # k => fx_runs[l].driver # fx_runs[k].driver

\* --browser=All: the chrome execution ended in an error, the firefox one failed,
\* and the edge execution still ran and passed
C23_Witness ==
    /\ entry = "pytest"
    /\ Len(fx_runs) = 3
    /\ fx_runs[1].report = "error"
    /\ fx_runs[2].report = "failed"
    /\ fx_runs[3].report = "passed"
    /\ fx_runs[3].browser_name = edge

FixtureSessions == {i \in DOMAIN sessions : sessions[i].owner = "fixture"}

\* C24: once the execution of a test item is over, whether the test passed or
\* failed or a setup step of the fixture raised, quit() has been called on the
\* session the fixture created for it.
C24_FixtureSessionsQuit ==
    (entry = "pytest" /\ fx_pc = "idle") =>
        \A i \in FixtureSessions : sessions[i].quits > 0

\* C25: a quit() that fails during teardown raises nothing to the caller and
\* leaves the report of the test as it was, in the fixture's teardown as in
\* DriverManager.stop().
C25_TeardownFailureSwallowed ==
    /\ last.op \in {"teardown", "stop"} => last.raised = "none"
    /\ last.op = "teardown" => fx_runs[Len(fx_runs)].report \in {"passed", "failed"}

\* C27: when __enter__ raises after the factory created a session, that session
\* has been quit and the body of the with statement is not entered.
C27_FailedEnterQuitsSession ==
    (/\ last.op = "enter"
     /\ last.raised # "none"
     /\ Len(last.calls) > 1) =>
        /\ scope = "outside"
        /\ sessions[Len(sessions)].quits > 0

\* C28: a start() (or __enter__) in which the factory raises stores no session
\* reference and launches nothing, so the manager is as before: the accessor
\* raises RuntimeError, and the next start() calls the factory again instead of
\* raising the already-started error.
C28_FactoryFailureLeavesNotStarted ==
    [][/\ (/\ last'.op \in {"start", "enter"}
           /\ last'.calls = <<"create">>
           /\ last'.raised # "none") =>
              /\ _driver = None
              /\ _driver' = None
              /\ state' = state
              /\ state' # "Running"
              /\ sessions' = sessions
       /\ (_driver = None /\ last'.op = "driver") =>
              last'.raised = "RuntimeError"
       /\ (_driver = None /\ last'.op \in {"start", "enter"}) =>
              /\ last'.calls # <<>>
              /\ Head(last'.calls) = "create"
              /\ last'.raised # "RuntimeError"]_vars

\* a start() in which the launch failed: nothing is stored, nothing is launched
C28_Witness ==
    /\ last.op = "start"
    /\ last.calls = <<"create">>
    /\ last.raised = "WebDriverException"
    /\ _driver = None
    /\ state = "NotStarted"
    /\ sessions = <<>>

\* ---------------------------------------- further claims on the configuration

\* C29: a get_config that raises returns nothing and leaves the cache as it
\* was, and a get_config that follows a failed one of the same name succeeds as
\* soon as the three required variables of that environment have values.
C29_FailedCallLeavesCache ==
    [][GetConfigStep =>
        /\ cfg_last'.raised # "none" =>
              /\ _config_cache' = _config_cache
              /\ cfg_last'.returned = <<>>
        /\ (/\ cfg_last.op = "get_config"
            /\ cfg_last.raised # "none"
            /\ cfg_last'.env_name = cfg_last.env_name
            /\ cfg_last'.env_name \in KnownEnvironments
            /\ \A v \in RequiredVars(cfg_last'.env_name) : ~Falsy(getenv(environ', v))) =>
              /\ cfg_last'.raised = "none"
              /\ cfg_last'.returned # <<>>
              /\ Matches(cfg_last'.returned[1], environ', cfg_last'.env_name)]_vars

\* get_config("dev") failed on a missing variable while the record of staging
\* is cached, and the cache holds staging only
C29_Witness ==
    /\ cfg_last.op = "get_config"
    /\ cfg_last.env_name = dev
    /\ cfg_last.raised = "ValueError"
    /\ cfg_last.names # {}
    /\ DOMAIN _config_cache = {staging}

\* C30: reset_config leaves the cache empty and the load flag cleared, and the
\* get_config that follows it loads the variable source again, reads the
\* required variables of its environment and, when they have values, returns
\* the record of their current values, not the one the reset dropped.
C30_ResetForcesReload ==
    /\ [](cfg_last.op = "reset_config" => (_config_cache = <<>> /\ ~_dotenv_loaded))
    /\ [][(GetConfigStep /\ cfg_last.op = "reset_config") =>
            /\ _dotenv_loaded'
            /\ \A k \in DOMAIN dotenv_file : k \in DOMAIN environ'
            /\ cfg_last'.env_name \in KnownEnvironments =>
                  RequiredVars(cfg_last'.env_name) \subseteq ReadSet(cfg_last')
            /\ (/\ cfg_last'.env_name \in KnownEnvironments
                /\ \A v \in RequiredVars(cfg_last'.env_name) : ~Falsy(getenv(environ', v))) =>
                  /\ cfg_last'.returned # <<>>
                  /\ Matches(cfg_last'.returned[1], environ', cfg_last'.env_name)]_vars

\* after a reset, get_config("dev") returned a record that differs from the one
\* the reset had dropped
C30_Witness ==
    /\ cfg_last.op = "get_config"
    /\ cfg_last.env_name = dev
    /\ cfg_last.returned # <<>>
    /\ dev \in DOMAIN cleared
    /\ cleared[dev] # cfg_last.returned[1]
    /\ cfg_last.returned[1].base_url = "changed"

\* ------------------------------------------------------- claims on the waits

\* C26: a wait made through BasePage ends within its timeout (one poll interval
\* of tolerance), and one whose condition did not come true in time raises a
\* TimeoutException whose message includes the locator and the current URL.
C26_WaitExpiredIsDescriptive ==
    page_last.op # "init" =>
        /\ page_last.elapsed <= page_last.waited + 1
        /\ (page_last.appears = <<>> \/ page_last.appears[1] > page_last.waited) =>
              /\ page_last.raised = "TimeoutException"
              /\ {"locator", "url"} \subseteq page_last.message

====
